---- MODULE Spec2Model ----
(***************************************************************************)
(* Model of the room engine of attendcard: KeyedLock (utils/lock.js) and   *)
(* RoomStore (the room state engine with its presence tracker), over the   *)
(* room_ops / room_snapshots tables created by src/db.js.                  *)
(*                                                                         *)
(* Granularity: JavaScript runs a function to its next await without       *)
(* interleaving, so one action is one such run.  The only awaits of the    *)
(* modelled code are `await run` in withKey and `await this.initRoom()`    *)
(* at the top of applyOperation, saveSnapshot and updatePresence.          *)
(***************************************************************************)
EXTENDS Integers, Sequences, FiniteSets, TLC

\* ---------------------------------------------------------------- bounds
Rooms == {"r1", "r2"}
Clients == {"a"}
MaxCalls == 2        \* top-level RoomStore calls made by the transport layer
MaxClock == 1        \* number of clock advances observed by Date.now()
MaxHits == 102       \* requests that reach the rate-limit hook
MaxOtherHits == 2    \* those of them that come from the second ip
MaxTicks == 1        \* advances of the server's clock
IPs == {"ip1", "ip2"}
MaxRequests == 2     \* requests the attendance routes handle
MemberIds == {1}

\* ------------------------------------------------------ program constants
SNAPSHOT_INTERVAL_MS == 300000
PRESENCE_STALE_MS == 30000
RATE_LIMIT_WINDOW == 60000
RATE_LIMIT_MAX == 100
CACHE_DURATION == 1000
ClockStep == 30001   \* one observed clock advance, in ms (just past stale)

\* ------------------------------------------------------------- value space
Undefined == -1      \* stands for a JS undefined where a number is expected
Null == "null"       \* JS null for a string-valued field

TemplateVersion == 0
TemplateCards ==
  << [id |-> "c1", zone |-> "bench"], [id |-> "c2", zone |-> "bench"] >>

NoRoom == [id |-> "", version |-> Undefined, cards |-> << >>]

\* ------------------------------------------------------------------- JSON
\* JSON.stringify of a room state: the text is modelled as the sequence of
\* its members in key order, cards as an array of [id, zone] member lists.
StringifyCards(cards) ==
  [i \in 1..Len(cards) |-> << <<"id", cards[i].id>>, <<"zone", cards[i].zone>> >>]

StringifyState(s) ==
  << <<"id", s.id>>, <<"version", s.version>>, <<"cards", StringifyCards(s.cards)>> >>

ParseCards(j) ==
  [i \in 1..Len(j) |-> [id |-> j[i][1][2], zone |-> j[i][2][2]]]

ParseState(j) ==
  [id |-> j[1][2], version |-> j[2][2], cards |-> ParseCards(j[3][2])]

StringifyOp(op) ==
  << <<"type", op.type>>, <<"cardId", op.cardId>>,
     <<"toZone", op.toZone>>, <<"version", op.version>> >>

ParseOp(j) ==
  [type |-> j[1][2], cardId |-> j[2][2], toZone |-> j[3][2], version |-> j[4][2]]

deepClone(s) == ParseState(StringifyState(s))

\* ------------------------------------------------------------------ state
VARIABLES
  locks,           \* KeyedLock._locks: key -> id of the tail invocation, 0 = no entry
  inv,             \* every withKey invocation, in the order withKey was called
  rooms,           \* RoomStore.rooms: room id -> cached state, NoRoom = no entry
  presence,        \* RoomStore.presence: room id -> [has, list of entries]
  snapshotTimers,  \* RoomStore.snapshotTimers: rooms with an armed interval
  room_ops,        \* table room_ops: rows [room_id, version, op_json]
  room_snapshots,  \* table room_snapshots: rows in insertion order
  clock,           \* what Date.now() last returned, in ms
  reads,           \* what each getPresence call returned, in call order
  rateLimitMap,    \* the attendance server's rateLimitMap: ip -> [count, resetTime]
  dateNow,         \* [ms, ticks]: what the server's Date.now() returns, and
                   \* how often it has advanced
  hook,            \* the last request the preHandler hook answered
  windows,         \* per ip, the window of the claim: when it opened and how
                   \* many requests came in it
  members,         \* table members: the ids present
  attendance,      \* table attendance, for one date: member_id -> status
  writes,          \* how many writing statements the database has executed
  invalidated,     \* the number (in writes) of the latest write whose route
                   \* has called invalidateWeekDataCache
  weekDataCache,   \* the cached week data, NoData = null
  cacheTimestamp,
  reqs             \* the requests handled by the attendance routes

vars ==
  <<locks, inv, rooms, presence, snapshotTimers, room_ops, room_snapshots, clock, reads,
    rateLimitMap, dateNow, hook, windows,
    members, attendance, writes, invalidated, weekDataCache, cacheTimestamp, reqs>>

rateVars == <<rateLimitMap, hook, windows>>

attendVars ==
  <<members, attendance, writes, invalidated, weekDataCache, cacheTimestamp, reqs>>

\* the state of the attendance server (server.js), apart from the room engine
serverVars ==
  <<rateLimitMap, dateNow, hook, windows,
    members, attendance, writes, invalidated, weekDataCache, cacheTimestamp, reqs>>

roomVars ==
  <<locks, inv, rooms, presence, snapshotTimers, room_ops, room_snapshots, clock, reads>>

storeVars == <<rooms, presence, snapshotTimers, room_ops, room_snapshots, clock>>

Methods == {"initRoom", "getRoomState", "applyOperation", "saveSnapshot", "resetRoom",
            "updatePresence", "clearPresence", "prunePresence"}

NoTs == <<"undefined", 0>>

NoArg == [type |-> "", cardId |-> "", toZone |-> "", clientV |-> Undefined,
          clientId |-> "", holding |-> Null, ts |-> NoTs]

\* the operations a client submits: a move computed against version 0 or 1, an
\* operation of another type, a move without clientV, and a move of a card that
\* no room has
ClientOps ==
  { [NoArg EXCEPT !.type = "move", !.cardId = "c1", !.toZone = "field", !.clientV = v] :
      v \in {0, 1, Undefined} }
  \cup { [NoArg EXCEPT !.type = "move", !.cardId = "zz", !.toZone = "field",
                       !.clientV = v] : v \in {0, 1} }
  \cup { [NoArg EXCEPT !.type = "rotate", !.cardId = "c1", !.toZone = "field",
                       !.clientV = 0] }

PresenceArgs ==
  { [NoArg EXCEPT !.clientId = c, !.holding = h, !.ts = <<"client", 5>>] :
      c \in Clients, h \in {Null, "c1"} }

ClientArgs == { [NoArg EXCEPT !.clientId = c] : c \in Clients }

ArgsOf(m) ==
  CASE m = "applyOperation" -> ClientOps
    [] m = "updatePresence" -> PresenceArgs
    [] m = "clearPresence"  -> ClientArgs
    [] OTHER                -> {NoArg}

NoDelta == [type |-> "", cardId |-> "", toZone |-> "", version |-> Undefined]

\* aliased: the state handed out is the cached object itself, not a copy of it
NoResult ==
  [version |-> Undefined, state |-> NoRoom, delta |-> NoDelta, list |-> << >>,
   aliased |-> FALSE]

Ids == 1..Len(inv)

TopLevel == {i \in Ids : inv[i].parent = 0}

\* the calls the transport layer has made so far
CallsMade == Cardinality(TopLevel) + Len(reads)

\* ------------------------------------------------------------- KeyedLock
\* mutants of Current: no chaining at all, and one chain shared by every key
CurrentUnchained(key) == 0

CurrentAnyKey(key) ==
  IF \E k \in Rooms : locks[k] # 0
  THEN CHOOSE t \in {locks[k] : k \in Rooms} : \A k \in Rooms : locks[k] <= t
  ELSE 0

\* lock.js line 7: `this._locks.get(key) || Promise.resolve()`; 0 stands for the
\* already resolved promise.
Current(key) == locks[key]

\* lock.js lines 6-13, the synchronous part of withKey: the new invocation is
\* chained after the current tail and becomes the tail.
withKey(key, method, arg, parent) ==
  [key |-> key, method |-> method, arg |-> arg, prev |-> Current(key),
   parent |-> parent, child |-> 0, st |-> "queued", outcome |-> "pending",
   result |-> NoResult, delivered |-> "pending"]

\* mutants of PrevSettled: fn is called without waiting, and fn is called only
\* after a fulfilled promise (the `.catch` is missing)
PrevIgnored(i) == TRUE

PrevFulfilled(i) ==
  IF inv[i].prev = 0 THEN TRUE
  ELSE inv[inv[i].prev].st = "done" /\ inv[inv[i].prev].outcome = "ok"

\* lock.js lines 9-11: `current.catch(() => {}).then(() => fn())`: fn is called
\* once the promise it is chained after has settled, fulfilled or rejected.  The
\* reaction of `await run` (line 16) of that earlier invocation was registered
\* on the promise first, so its finally block has run by then.
PrevSettled(i) ==
  IF inv[i].prev = 0 THEN TRUE ELSE inv[inv[i].prev].st = "done"

\* lock.js line 16: `return await run`: the caller of withKey gets the outcome of
\* its own function, a rejection included.
Delivered(i) == inv[i].outcome

\* mutant of Release: the entry is deleted without the test of line 18
ReleaseAlways(i) == [locks EXCEPT ![inv[i].key] = 0]

\* lock.js lines 17-21: the finally block of withKey.
Release(i) ==
  IF locks[inv[i].key] = i THEN [locks EXCEPT ![inv[i].key] = 0] ELSE locks

\* ---------------------------------------------------------------- tables
SnapshotRows(roomId) ==
  {k \in 1..Len(room_snapshots) : room_snapshots[k].room_id = roomId}

\* snapshotLatestStmt: ORDER BY version DESC LIMIT 1; rows of equal version are
\* returned in an order SQLite does not fix.
snapshotLatestStmt(roomId) ==
  {k \in SnapshotRows(roomId) :
     \A j \in SnapshotRows(roomId) : room_snapshots[j].version <= room_snapshots[k].version}

\* mutant of Ascending: ORDER BY version DESC
RECURSIVE Descending(_)
Descending(rows) ==
  IF rows = {} THEN << >>
  ELSE LET hi == CHOOSE x \in rows : \A y \in rows : y.version <= x.version
       IN  <<hi>> \o Descending(rows \ {hi})

RECURSIVE Ascending(_)
Ascending(rows) ==
  IF rows = {} THEN << >>
  ELSE LET lo == CHOOSE x \in rows : \A y \in rows : x.version <= y.version
       IN  <<lo>> \o Ascending(rows \ {lo})

\* opsAfterStmt: version > ? ORDER BY version ASC
opsAfterStmt(roomId, version) ==
  Ascending({row \in room_ops : row.room_id = roomId /\ row.version > version})

\* opInsert: INSERT OR REPLACE on UNIQUE(room_id, version)
opInsert(roomId, version, opJson) ==
  {row \in room_ops : ~(row.room_id = roomId /\ row.version = version)}
    \cup {[room_id |-> roomId, version |-> version, op_json |-> opJson]}

snapshotInsert(table, roomId, version, stateJson) ==
  Append(table, [room_id |-> roomId, version |-> version, state_json |-> stateJson])

deleteOpsStmt(roomId) == {row \in room_ops : row.room_id # roomId}

\* mutant of deleteSnapshotsStmt: the WHERE clause is missing
deleteSnapshotsEveryRoom(roomId) == << >>

deleteSnapshotsStmt(roomId) ==
  SelectSeq(room_snapshots, LAMBDA row : row.room_id # roomId)

\* ------------------------------------------------------- applyMoveOperation
\* `state.cards.find(c => c.id === op.cardId)`: index of the first match, 0 if none
FindCard(cards, cardId) ==
  IF \E k \in 1..Len(cards) : cards[k].id = cardId
  THEN CHOOSE k \in 1..Len(cards) :
         /\ cards[k].id = cardId
         /\ \A j \in 1..(k - 1) : cards[j].id # cardId
  ELSE 0

\* mutant of applyMoveOperation: the zone is written to every card
applyMoveEveryCard(state, op) ==
  [state EXCEPT !.cards = [k \in 1..Len(state.cards) |->
                             [state.cards[k] EXCEPT !.zone = op.toZone]],
                !.version = op.version]

\* lines 12-19; only called with FindCard # 0 (line 15 throws otherwise)
applyMoveOperation(state, op) ==
  [state EXCEPT !.cards[FindCard(state.cards, op.cardId)].zone = op.toZone,
                !.version = op.version]

\* lines 58-61: the replay loop; ok = FALSE when applyMoveOperation threw
RECURSIVE Replay(_, _)
Replay(state, rows) ==
  IF rows = << >> THEN [ok |-> TRUE, state |-> state]
  ELSE LET op == ParseOp(Head(rows).op_json)
       IN  IF FindCard(state.cards, op.cardId) = 0
           THEN [ok |-> FALSE, state |-> state]
           ELSE Replay(applyMoveOperation(state, op), Tail(rows))

\* `x || 0` on a version
OrZero(v) == IF v = Undefined THEN 0 ELSE v

\* lines 75-83
loadTemplate(roomId) ==
  [deepClone([id |-> "", version |-> TemplateVersion, cards |-> TemplateCards])
     EXCEPT !.id = roomId]

\* ---------------------------------------------------------------- RoomStore
Store ==
  [rooms |-> rooms, presence |-> presence, snapshotTimers |-> snapshotTimers,
   room_ops |-> room_ops, room_snapshots |-> room_snapshots, clock |-> clock]

\* how an async function's run ends: `return` fulfils, `throw` rejects
Return(store, result) == [store |-> store, outcome |-> "ok", result |-> result]

Throw(store, code, result) == [store |-> store, outcome |-> code, result |-> result]

\* the rows snapshotLatestStmt.get may return; {0} when the room has no snapshot
LatestChoices(roomId) ==
  IF snapshotLatestStmt(roomId) = {} THEN {0} ELSE snapshotLatestStmt(roomId)

\* mutant of initRoom: line 62 (the loaded state is not cached) is missing
initRoomNotCaching(roomId, pick) ==
  IF rooms[roomId] # NoRoom
  THEN Return(Store, [NoResult EXCEPT !.state = rooms[roomId], !.aliased = TRUE])
  ELSE LET loaded == IF pick # 0 THEN ParseState(room_snapshots[pick].state_json)
                     ELSE loadTemplate(roomId)
           replay == Replay(loaded, opsAfterStmt(roomId, OrZero(loaded.version)))
       IN  IF ~replay.ok
           THEN Throw(Store, "card_not_found", NoResult)
           ELSE Return([Store EXCEPT !.snapshotTimers = @ \cup {roomId}],
                       [NoResult EXCEPT !.state = replay.state, !.aliased = TRUE])

\* lines 47-71: the function initRoom runs under the room's lock
initRoom(roomId, pick) ==
  IF rooms[roomId] # NoRoom
  THEN Return(Store, [NoResult EXCEPT !.state = rooms[roomId], !.aliased = TRUE])
  ELSE LET loaded == IF pick # 0 THEN ParseState(room_snapshots[pick].state_json)
                     ELSE loadTemplate(roomId)
           replay == Replay(loaded, opsAfterStmt(roomId, OrZero(loaded.version)))
       IN  IF ~replay.ok
           THEN Throw(Store, "card_not_found", NoResult)
           ELSE Return([Store EXCEPT !.rooms[roomId] = replay.state,
                                     !.snapshotTimers = @ \cup {roomId}],
                       [NoResult EXCEPT !.state = replay.state, !.aliased = TRUE])

\* lines 93-119: applyOperation after `await this.initRoom(roomId)` returned
\* `state`.  initRoom returns the cached object itself, so line 113 changes the
\* cache when the cache still holds that object.
applyOperation(roomId, op, state, fail) ==
  IF op.type # "move" THEN Throw(Store, "unsupported_op", NoResult)
  ELSE IF op.clientV = Undefined THEN Throw(Store, "clientV_required", NoResult)
  ELSE IF op.clientV # state.version
  THEN Throw(Store, "VERSION_CONFLICT",
             [NoResult EXCEPT !.version = state.version, !.state = deepClone(state)])
  ELSE LET serverVersion == state.version + 1
           moveOp == [type |-> "move", cardId |-> op.cardId, toZone |-> op.toZone,
                      version |-> serverVersion]
       IN  IF FindCard(state.cards, op.cardId) = 0
           THEN Throw(Store, "card_not_found", NoResult)
           ELSE LET moved == applyMoveOperation(state, moveOp)
                    mem == [Store EXCEPT !.rooms[roomId] =
                                           IF @ = state THEN moved ELSE @]
                IN  IF fail = "opInsert"
                    THEN Throw(mem, "db_error", NoResult)
                    ELSE Return([mem EXCEPT !.room_ops =
                                   opInsert(roomId, serverVersion, StringifyOp(moveOp))],
                                [NoResult EXCEPT !.version = serverVersion,
                                                 !.delta = moveOp,
                                                 !.state = deepClone(moved)])

\* line 126: saveSnapshot after `await this.initRoom(roomId)` returned `state`
saveSnapshot(roomId, state, fail) ==
  IF fail = "snapshotInsert" THEN Throw(Store, "db_error", NoResult)
  ELSE Return([Store EXCEPT !.room_snapshots =
                 snapshotInsert(@, roomId, state.version, StringifyState(state))],
              NoResult)

\* mutants of resetRoom: line 134 (the snapshots are not deleted) and line 136
\* (the template is not cached) are missing
resetRoomKeepingSnapshots(roomId, fail) ==
  LET template == loadTemplate(roomId)
      s1 == [Store EXCEPT !.room_ops = deleteOpsStmt(roomId)]
      s3 == [s1 EXCEPT !.room_snapshots =
                         snapshotInsert(@, roomId, OrZero(template.version),
                                        StringifyState(template)),
                       !.rooms[roomId] = template,
                       !.presence[roomId] = [has |-> TRUE, entries |-> << >>]]
  IN  IF fail # "none" THEN Throw(Store, "db_error", NoResult)
      ELSE Return(s3, [NoResult EXCEPT !.state = deepClone(template)])

\* mutant of resetRoom: line 133 (the LogEntries are not deleted) is missing
resetRoomKeepingOps(roomId, fail) ==
  LET template == loadTemplate(roomId)
      s2 == [Store EXCEPT !.room_snapshots = deleteSnapshotsStmt(roomId)]
      s3 == [s2 EXCEPT !.room_snapshots =
                         snapshotInsert(@, roomId, OrZero(template.version),
                                        StringifyState(template)),
                       !.rooms[roomId] = template,
                       !.presence[roomId] = [has |-> TRUE, entries |-> << >>]]
  IN  IF fail # "none" THEN Throw(Store, "db_error", NoResult)
      ELSE Return(s3, [NoResult EXCEPT !.state = deepClone(template)])

resetRoomNotCaching(roomId, fail) ==
  LET template == loadTemplate(roomId)
      s2 == [Store EXCEPT !.room_ops = deleteOpsStmt(roomId),
                          !.room_snapshots = deleteSnapshotsStmt(roomId)]
      s3 == [s2 EXCEPT !.room_snapshots =
                         snapshotInsert(@, roomId, OrZero(template.version),
                                        StringifyState(template)),
                       !.presence[roomId] = [has |-> TRUE, entries |-> << >>]]
  IN  IF fail # "none" THEN Throw(Store, "db_error", NoResult)
      ELSE Return(s3, [NoResult EXCEPT !.state = deepClone(template)])

\* lines 132-138
resetRoom(roomId, fail) ==
  LET template == loadTemplate(roomId)
      s1 == [Store EXCEPT !.room_ops = deleteOpsStmt(roomId)]
      s2 == [s1 EXCEPT !.room_snapshots = deleteSnapshotsStmt(roomId)]
      s3 == [s2 EXCEPT !.room_snapshots =
                         snapshotInsert(@, roomId, OrZero(template.version),
                                        StringifyState(template)),
                       !.rooms[roomId] = template,
                       !.presence[roomId] = [has |-> TRUE, entries |-> << >>]]
  IN  CASE fail = "deleteOps"       -> Throw(Store, "db_error", NoResult)
        [] fail = "deleteSnapshots" -> Throw(s1, "db_error", NoResult)
        [] fail = "snapshotInsert"  -> Throw(s2, "db_error", NoResult)
        [] OTHER -> Return(s3, [NoResult EXCEPT !.state = deepClone(template)])

\* lines 188-194
serializePresence(entries) ==
  [k \in 1..Len(entries) |->
     [clientId |-> entries[k].clientId, holding |-> entries[k].holding,
      ts |-> entries[k].ts]]

\* Map.set: an existing key keeps its place, a new key goes last
MapSet(entries, entry) ==
  IF \E k \in 1..Len(entries) : entries[k].clientId = entry.clientId
  THEN [k \in 1..Len(entries) |->
          IF entries[k].clientId = entry.clientId THEN entry ELSE entries[k]]
  ELSE Append(entries, entry)

\* lines 145-154: updatePresence after `await this.initRoom(roomId)`
updatePresence(roomId, payload, now) ==
  LET entry == [clientId |-> payload.clientId, holding |-> payload.holding,
                ts |-> IF payload.ts = NoTs THEN <<"iso", now>> ELSE payload.ts,
                updatedAt |-> now]
      entries == MapSet(presence[roomId].entries, entry)
  IN  Return([Store EXCEPT !.presence[roomId] = [has |-> TRUE, entries |-> entries],
                           !.clock = now],
             [NoResult EXCEPT !.list = serializePresence(entries)])

\* lines 160-164
clearPresence(roomId, clientId) ==
  IF ~presence[roomId].has THEN Return(Store, NoResult)
  ELSE LET entries == SelectSeq(presence[roomId].entries,
                                LAMBDA e : e.clientId # clientId)
       IN  Return([Store EXCEPT !.presence[roomId].entries = entries],
                  [NoResult EXCEPT !.list = serializePresence(entries)])

\* lines 170-179
prunePresence(roomId, now) ==
  IF ~presence[roomId].has THEN Return(Store, NoResult)
  ELSE LET entries == SelectSeq(presence[roomId].entries,
                                LAMBDA e : ~(now - e.updatedAt > PRESENCE_STALE_MS))
       IN  Return([Store EXCEPT !.presence[roomId].entries = entries, !.clock = now],
                  [NoResult EXCEPT !.list = serializePresence(entries)])

\* mutant of getPresence: the fallback map is stored
getPresenceStoring(roomId) ==
  Return([Store EXCEPT !.presence[roomId].has = TRUE],
         [NoResult EXCEPT !.list = serializePresence(presence[roomId].entries)])

\* lines 183-186: `this.presence.get(roomId) || new Map()` is not stored
getPresence(roomId) ==
  Return(Store, [NoResult EXCEPT !.list = serializePresence(presence[roomId].entries)])

\* lines 85-88: getRoomState hands out a clone of what initRoom returned; every
\* other method hands out what its function returned
Handed(i) ==
  IF inv[i].method = "getRoomState" /\ inv[i].outcome = "ok"
  THEN [inv[i].result EXCEPT !.state = deepClone(@), !.aliased = FALSE]
  ELSE inv[i].result

\* the methods whose function starts with `await this.initRoom(roomId)`,
\* lines 92, 125 and 144
AwaitsInitRoom == {"applyOperation", "saveSnapshot", "updatePresence"}

\* the persistence call that throws in one run of a method, "none" if none does
FailPoints(m) ==
  CASE m = "applyOperation" -> {"none", "opInsert"}
    [] m = "saveSnapshot"   -> {"none", "snapshotInsert"}
    [] m = "resetRoom"      -> {"none", "deleteOps", "deleteSnapshots", "snapshotInsert"}
    [] OTHER                -> {"none"}

\* what Date.now() may return next
Nows == {clock} \cup {clock + ClockStep : x \in {y \in {1} : clock < MaxClock * ClockStep}}

\* the run of invocation i's function up to its return or throw; for a method of
\* AwaitsInitRoom this is the part after the await, with the awaited outcome
Body(i, pick, fail, now) ==
  LET c == inv[i]
      awaited == inv[c.child]
  IN  CASE c.method \in {"initRoom", "getRoomState"} -> initRoom(c.key, pick)
        [] c.method = "resetRoom"     -> resetRoom(c.key, fail)
        [] c.method = "clearPresence" -> clearPresence(c.key, c.arg.clientId)
        [] c.method = "prunePresence" -> prunePresence(c.key, now)
        [] OTHER ->
             IF awaited.delivered # "ok"
             THEN Throw(Store, awaited.delivered, awaited.result)
             ELSE CASE c.method = "applyOperation" ->
                         applyOperation(c.key, c.arg, awaited.result.state, fail)
                    [] c.method = "saveSnapshot" ->
                         saveSnapshot(c.key, awaited.result.state, fail)
                    [] OTHER -> updatePresence(c.key, c.arg, now)

\* ---------------------------------------------------- the attendance server
NoEntry == [count |-> Undefined, resetTime |-> Undefined]

NoHook == [n |-> 0, others |-> 0, ip |-> "", reply |-> ""]

NoWindow == [opened |-> Undefined, seen |-> 0]

\* what getWeekData builds from one read of the database; asOf is the number of
\* writes the database had executed when it was read
NoData == [members |-> {}, attendance |-> [m \in MemberIds |-> "none"], asOf |-> Undefined]

NoReq ==
  [kind |-> "", member |-> 0, pc |-> "done", read |-> NoData, err |-> FALSE,
   wseq |-> 0, changes |-> 0, startedAt |-> 0, reply |-> "", notify |-> "none"]

\* the server after start-up: every member of MemberIds exists, no attendance
\* is recorded, no request has arrived
ServerInit ==
  /\ rateLimitMap = [ip \in IPs |-> NoEntry]
  /\ dateNow = [ms |-> 0, ticks |-> 0]
  /\ hook = NoHook
  /\ windows = [ip \in IPs |-> NoWindow]
  /\ members = MemberIds
  /\ attendance = [m \in MemberIds |-> "none"]
  /\ writes = 0
  /\ invalidated = 0
  /\ weekDataCache = NoData
  /\ cacheTimestamp = 0
  /\ reqs = << >>

TypeInit ==
  /\ ServerInit
  /\ locks = [r \in Rooms |-> 0]
  /\ inv = << >>
  /\ rooms = [r \in Rooms |-> NoRoom]
  /\ presence = [r \in Rooms |-> [has |-> FALSE, entries |-> << >>]]
  /\ snapshotTimers = {}
  /\ room_ops = {}
  /\ room_snapshots = << >>
  /\ clock = 0
  /\ reads = << >>

Init == TypeInit

\* a RoomStore method is called: each of them calls this.lock.withKey at once
Call(m, r, a) ==
  /\ CallsMade < MaxCalls
  /\ inv' = Append(inv, withKey(r, m, a, 0))
  /\ locks' = [locks EXCEPT ![r] = Len(inv) + 1]
  /\ UNCHANGED <<storeVars, reads>>
  /\ UNCHANGED serverVars

\* getPresence is called: it is synchronous and takes no lock
GetPresence(r) ==
  /\ CallsMade < MaxCalls
  /\ LET e == getPresence(r)
     IN  /\ rooms' = e.store.rooms
         /\ presence' = e.store.presence
         /\ snapshotTimers' = e.store.snapshotTimers
         /\ room_ops' = e.store.room_ops
         /\ room_snapshots' = e.store.room_snapshots
         /\ clock' = e.store.clock
         /\ reads' = Append(reads, [room |-> r, list |-> e.result.list])
  /\ UNCHANGED <<locks, inv>>
  /\ UNCHANGED serverVars

\* lines 64-68: the interval armed by initRoom calls saveSnapshot
TimerFire(r) ==
  /\ r \in snapshotTimers
  /\ CallsMade < MaxCalls
  /\ inv' = Append(inv, withKey(r, "saveSnapshot", NoArg, 0))
  /\ locks' = [locks EXCEPT ![r] = Len(inv) + 1]
  /\ UNCHANGED <<storeVars, reads>>
  /\ UNCHANGED serverVars

\* invocation i's function can run: it was not started and the promise it is
\* chained after has settled, or it awaits an initRoom call that has returned
Runnable(i) ==
  CASE inv[i].st = "queued"   -> PrevSettled(i)
    [] inv[i].st = "awaiting" -> inv[inv[i].child].st = "done"
    [] OTHER                  -> FALSE

\* the function of invocation i runs to its next await or to its end
Run(i) ==
  /\ i \in Ids
  /\ Runnable(i)
  /\ IF inv[i].st = "queued" /\ inv[i].method \in AwaitsInitRoom
     THEN /\ inv' = Append([inv EXCEPT ![i].st = "awaiting", ![i].child = Len(inv) + 1],
                           withKey(inv[i].key, "initRoom", NoArg, i))
          /\ locks' = [locks EXCEPT ![inv[i].key] = Len(inv) + 1]
          /\ UNCHANGED <<storeVars, reads>>
     ELSE \E pick \in LatestChoices(inv[i].key), fail \in FailPoints(inv[i].method),
             now \in Nows :
            LET e == Body(i, pick, fail, now)
            IN  /\ rooms' = e.store.rooms
                /\ presence' = e.store.presence
                /\ snapshotTimers' = e.store.snapshotTimers
                /\ room_ops' = e.store.room_ops
                /\ room_snapshots' = e.store.room_snapshots
                /\ clock' = e.store.clock
                /\ inv' = [inv EXCEPT ![i].st = "settled", ![i].outcome = e.outcome,
                                      ![i].result = e.result]
                /\ UNCHANGED <<locks, reads>>
  /\ UNCHANGED serverVars

\* lock.js lines 15-21: `await run` resumes, the finally block runs and the
\* caller of withKey gets the outcome
Finally(i) ==
  /\ i \in Ids
  /\ inv[i].st = "settled"
  /\ locks' = Release(i)
  /\ inv' = [inv EXCEPT ![i].st = "done", ![i].delivered = Delivered(i),
                        ![i].result = Handed(i)]
  /\ UNCHANGED <<storeVars, reads>>
  /\ UNCHANGED serverVars

Next ==
  \/ \E m \in Methods, r \in Rooms : \E a \in ArgsOf(m) : Call(m, r, a)
  \/ \E r \in Rooms : GetPresence(r)
  \/ \E r \in Rooms : TimerFire(r)
  \/ \E i \in 1..(2 * MaxCalls) : Run(i)
  \/ \E i \in 1..(2 * MaxCalls) : Finally(i)

Spec == Init /\ [][Next]_vars

\* ------------------------------------- calls that do not nest withKey calls
\* The RoomStore methods whose function makes no withKey call of its own and
\* ends by returning or throwing.
LockMethods == {"initRoom", "resetRoom", "prunePresence"}

LockNext ==
  \/ \E m \in LockMethods, r \in Rooms : Call(m, r, NoArg)
  \/ \E i \in 1..(2 * MaxCalls) : Run(i)
  \/ \E i \in 1..(2 * MaxCalls) : Finally(i)

\* the event loop runs every continuation whose promise has settled
LockFairSpec ==
  /\ Init /\ [][LockNext]_vars
  /\ \A i \in 1..(2 * MaxCalls) : WF_vars(Run(i)) /\ WF_vars(Finally(i))

\* -------------------------------------------------- the rate-limit hook
\* mutant of Limited: the request that reaches the maximum is refused
LimitedAtMax(count) == count >= RATE_LIMIT_MAX

\* part_000 line 37: `clientData.count > RATE_LIMIT_MAX`
Limited(count) == count > RATE_LIMIT_MAX

\* mutant of Expired: the window never expires
ExpiredNever(data, t) == FALSE

\* part_000 lines 17 and 30: `now - data.resetTime > RATE_LIMIT_WINDOW`
Expired(data, t) == t - data.resetTime > RATE_LIMIT_WINDOW

\* part_000 lines 15-35: the map after the hook ran for a request of clientIP
Counted(clientIP, t) ==
  LET cleaned == [ip \in IPs |->
                    IF rateLimitMap[ip] # NoEntry /\ Expired(rateLimitMap[ip], t)
                    THEN NoEntry ELSE rateLimitMap[ip]]
      ensured == IF cleaned[clientIP] = NoEntry
                 THEN [cleaned EXCEPT ![clientIP] = [count |-> 0, resetTime |-> t]]
                 ELSE cleaned
      fresh == IF Expired(ensured[clientIP], t)
               THEN [ensured EXCEPT ![clientIP] = [count |-> 0, resetTime |-> t]]
               ELSE ensured
  IN  [fresh EXCEPT ![clientIP].count = @ + 1]

\* the window of the claim: a request opens one when its ip has none or the
\* last one is over, more than RATE_LIMIT_WINDOW after the request that opened it
Observed(ip, t) ==
  LET w == windows[ip]
  IN  IF w = NoWindow \/ t - w.opened > RATE_LIMIT_WINDOW
      THEN [opened |-> t, seen |-> 1]
      ELSE [w EXCEPT !.seen = @ + 1]

\* part_000 lines 11-41: the preHandler hook runs for a request of clientIP
PreHandler(clientIP) ==
  /\ hook.n < MaxHits
  /\ clientIP # "ip1" => hook.others < MaxOtherHits
  /\ rateLimitMap' = Counted(clientIP, dateNow.ms)
  /\ hook' = [n |-> hook.n + 1,
              others |-> IF clientIP # "ip1" THEN hook.others + 1 ELSE hook.others,
              ip |-> clientIP,
              reply |-> IF Limited(Counted(clientIP, dateNow.ms)[clientIP].count)
                        THEN "429" ELSE "pass"]
  /\ windows' = [windows EXCEPT ![clientIP] = Observed(clientIP, dateNow.ms)]
  /\ UNCHANGED dateNow
  /\ UNCHANGED attendVars
  /\ UNCHANGED roomVars

\* time passes: to the last millisecond of a window, or one millisecond more
Tick(d) ==
  /\ dateNow.ticks < MaxTicks
  /\ dateNow' = [ms |-> dateNow.ms + d, ticks |-> dateNow.ticks + 1]
  /\ UNCHANGED rateVars
  /\ UNCHANGED attendVars
  /\ UNCHANGED roomVars

RateNext ==
  \/ \E ip \in IPs : PreHandler(ip)
  \/ \E d \in {RATE_LIMIT_WINDOW, RATE_LIMIT_WINDOW + 1} : Tick(d)

RateSpec == Init /\ [][RateNext]_vars

\* ------------------------------------------------- the attendance routes
\* The database is opened at part_000 line 122 and db.serialize is used only
\* around the table creation (line 125): the routes' statements run in
\* sqlite3's parallel mode, so a statement a route has issued is executed by
\* the database (Exec) and its callback runs on the event loop (Back) in no
\* fixed order relative to the statements of other requests.  The schema
\* declares FOREIGN KEY(member_id) REFERENCES members(id), and no statement
\* turns foreign-key enforcement on: the database does not check it.
\* One date of the week is modelled, so a member has at most one row
\* (UNIQUE(member_id, date)).
Kinds == {"week", "weekly", "delete", "attendance"}

Mutations == {"weekly", "delete", "attendance"}

ReqIds == 1..Len(reqs)

\* the inner try/catch of the weekly route without its catch: the failure
\* reaches the outer catch (line 481)
ReplyOfWeeklyUncaught(failed) == IF failed THEN "500" ELSE "success"

\* part_000 lines 470-480: a failure of getWeekData or of broadcast is caught
\* and logged, then the route replies success
ReplyOfWeekly(failed) == "success"

\* getWeekData lines 239-241
CacheValid(t) ==
  /\ weekDataCache # NoData
  /\ t - cacheTimestamp < CACHE_DURATION

\* what the query of getWeekData (members LEFT JOIN attendance) reads
WeekRows ==
  [members |-> members,
   attendance |-> [m \in MemberIds |-> IF m \in members THEN attendance[m] ELSE "none"],
   asOf |-> writes]

\* a request arrives and its route runs up to its first database statement:
\* GET /api/attendance/week calls getWeekData, which answers from the cache
\* when it is valid and otherwise issues its query; the other routes issue
\* their first write
Arrive(kind, m) ==
  /\ Len(reqs) < MaxRequests
  /\ LET hit == kind = "week" /\ CacheValid(dateNow.ms)
     IN  reqs' = Append(reqs,
           [NoReq EXCEPT !.kind = kind,
                         !.member = IF kind = "week" THEN 0 ELSE m,
                         !.startedAt = IF kind = "week" /\ ~hit THEN dateNow.ms ELSE 0,
                         !.pc = CASE kind = "week" -> IF hit THEN "done" ELSE "R"
                                  [] kind = "delete" -> "D1"
                                  [] OTHER -> "W",
                         !.reply = IF hit THEN "ok" ELSE ""])
  /\ UNCHANGED <<members, attendance, writes, invalidated, weekDataCache, cacheTimestamp>>
  /\ UNCHANGED <<rateVars, dateNow>>
  /\ UNCHANGED roomVars

\* the database executes the statement request i has issued: W is INSERT OR
\* REPLACE INTO attendance, D1 is DELETE FROM attendance WHERE member_id, D2 is
\* DELETE FROM members WHERE id, R is the query of getWeekData (or of the
\* injected GET /api/attendance/today), which may fail
Exec(i) ==
  /\ i \in ReqIds
  /\ reqs[i].pc \in {"W", "D1", "D2", "R"}
  /\ \E failed \in BOOLEAN :
       LET r == reqs[i]
           m == r.member
       IN  /\ failed => r.pc = "R"
           /\ attendance' = CASE r.pc = "W" -> [attendance EXCEPT ![m] = "attend"]
                              [] r.pc = "D1" -> [attendance EXCEPT ![m] = "none"]
                              [] OTHER -> attendance
           /\ members' = IF r.pc = "D2" THEN members \ {m} ELSE members
           /\ writes' = IF r.pc = "R" THEN writes ELSE writes + 1
           /\ reqs' = [reqs EXCEPT ![i] =
                CASE r.pc = "W" -> [r EXCEPT !.pc = "Wx", !.wseq = writes + 1]
                  [] r.pc = "D1" -> [r EXCEPT !.pc = "D1x"]
                  [] r.pc = "D2" -> [r EXCEPT !.pc = "D2x", !.wseq = writes + 1,
                                              !.changes = IF m \in members THEN 1 ELSE 0]
                  [] OTHER -> [r EXCEPT !.pc = "Rx", !.err = failed,
                                        !.read = IF failed THEN NoData ELSE WeekRows]]
  /\ UNCHANGED <<invalidated, weekDataCache, cacheTimestamp>>
  /\ UNCHANGED <<rateVars, dateNow>>
  /\ UNCHANGED roomVars

\* the callback of request i's executed statement runs, and the route with it
\* up to its next statement or its end; what the route no longer uses (the
\* statement's result, the locals of a getWeekData that returned) is dropped
Back(i) ==
  /\ i \in ReqIds
  /\ reqs[i].pc \in {"Wx", "D1x", "D2x", "Rx"}
  /\ \E sendThrows \in BOOLEAN :
       LET r == reqs[i]
           \* invalidateWeekDataCache, then getWeekData up to its query
           invalidates ==
             \/ r.pc = "Wx" /\ r.kind = "weekly"
             \/ r.pc = "D2x" /\ r.changes # 0
           \* getWeekData after its query, lines 334-338
           caches == r.pc = "Rx" /\ r.kind # "attendance" /\ ~r.err
           failed == r.err \/ sendThrows
       IN  /\ sendThrows => r.pc = "Rx" /\ r.kind \in Mutations /\ ~r.err
           /\ weekDataCache' = CASE invalidates -> NoData
                                 [] caches -> r.read
                                 [] OTHER -> weekDataCache
           /\ cacheTimestamp' = CASE invalidates -> 0
                                  [] caches -> r.startedAt
                                  [] OTHER -> cacheTimestamp
           /\ invalidated' = IF invalidates /\ r.wseq > invalidated
                             THEN r.wseq ELSE invalidated
           /\ reqs' = [reqs EXCEPT ![i] =
                CASE r.pc = "Wx" /\ r.kind = "weekly" ->
                       [r EXCEPT !.pc = "R", !.startedAt = dateNow.ms, !.wseq = 0]
                  [] r.pc = "Wx" /\ r.kind # "weekly" ->
                       [r EXCEPT !.pc = "R", !.reply = "success", !.wseq = 0]
                  [] r.pc = "D1x" -> [r EXCEPT !.pc = "D2"]
                  [] r.pc = "D2x" /\ r.changes = 0 ->
                       [r EXCEPT !.pc = "done", !.reply = "404", !.wseq = 0, !.changes = 0]
                  [] r.pc = "D2x" /\ r.changes # 0 ->
                       [r EXCEPT !.pc = "R", !.startedAt = dateNow.ms, !.reply = "success",
                                 !.wseq = 0, !.changes = 0]
                  [] r.pc = "Rx" /\ r.kind = "week" ->
                       [r EXCEPT !.pc = "done", !.reply = IF r.err THEN "500" ELSE "ok",
                                 !.read = NoData, !.err = FALSE, !.startedAt = 0]
                  [] r.pc = "Rx" /\ r.kind = "weekly" ->
                       [r EXCEPT !.pc = "done", !.reply = ReplyOfWeekly(failed),
                                 !.notify = IF failed THEN "failed" ELSE "sent",
                                 !.read = NoData, !.err = FALSE, !.startedAt = 0]
                  [] OTHER ->
                       [r EXCEPT !.pc = "done",
                                 !.notify = IF failed THEN "failed" ELSE "sent",
                                 !.read = NoData, !.err = FALSE, !.startedAt = 0]]
  /\ UNCHANGED <<members, attendance, writes>>
  /\ UNCHANGED <<rateVars, dateNow>>
  /\ UNCHANGED roomVars

AttendNext ==
  \/ \E kind \in Kinds, m \in MemberIds : Arrive(kind, m)
  \/ \E i \in 1..MaxRequests : Exec(i)
  \/ \E i \in 1..MaxRequests : Back(i)
  \/ Tick(CACHE_DURATION)

AttendSpec == Init /\ [][AttendNext]_vars

\* ------------------------------------------- a store opened on a database
\* The constructor (lines 22-43) takes the database as a parameter.  The
\* databases drawn here hold, for room r1, what line 114 and line 126 write for
\* a history of accepted moves of card c1: the LogEntries 1..n and snapshots
\* taken at some of the versions 0..n, in the order they were taken.  A history
\* is the sequence of the zones c1 was moved to.
Histories == { <<"field">>, <<"field", "bench">> }

\* line 107-112: the LogEntry of the k-th move of a history
MoveOf(zones, k) ==
  [type |-> "move", cardId |-> "c1", toZone |-> zones[k], version |-> k]

\* the in-memory state after the first v moves of a history
StateAt(roomId, zones, v) ==
  [id |-> roomId, version |-> v,
   cards |-> IF v = 0 THEN TemplateCards
             ELSE [TemplateCards EXCEPT ![1].zone = zones[v]]]

LogOf(roomId, zones) ==
  { [room_id |-> roomId, version |-> k, op_json |-> StringifyOp(MoveOf(zones, k))] :
      k \in 1..Len(zones) }

SnapshotsTaken(roomId, zones, versions) ==
  LET n == Cardinality(versions)
      at == CHOOSE f \in [1..n -> versions] : \A a, b \in 1..n : a < b => f[a] < f[b]
  IN  [k \in 1..n |->
         [room_id |-> roomId, version |-> at[k],
          state_json |-> StringifyState(StateAt(roomId, zones, at[k]))]]

RecoveryInit ==
  /\ ServerInit
  /\ locks = [r \in Rooms |-> 0]
  /\ inv = << >>
  /\ rooms = [r \in Rooms |-> NoRoom]
  /\ presence = [r \in Rooms |-> [has |-> FALSE, entries |-> << >>]]
  /\ snapshotTimers = {}
  /\ \E zones \in Histories : \E versions \in SUBSET (0..Len(zones)) :
        /\ room_ops = LogOf("r1", zones)
        /\ room_snapshots = SnapshotsTaken("r1", zones, versions)
  /\ clock = 0
  /\ reads = << >>

\* the calls that read or rewrite what the database holds for a room
RecoveryMethods == {"initRoom", "getRoomState", "resetRoom"}

RecoveryNext ==
  \/ \E m \in RecoveryMethods, r \in Rooms : Call(m, r, NoArg)
  \/ \E i \in 1..(2 * MaxCalls) : Run(i)
  \/ \E i \in 1..(2 * MaxCalls) : Finally(i)

RecoverySpec == RecoveryInit /\ [][RecoveryNext]_vars

\* the event loop runs every continuation whose promise has settled
FairSpec ==
  /\ Spec
  /\ \A i \in 1..(2 * MaxCalls) : WF_vars(Run(i)) /\ WF_vars(Finally(i))

\* ------------------------------------------------------------- properties
SameKey(i, j) == inv[i].key = inv[j].key

\* invocation i's function has been called and its promise has not settled
Executing(i) == inv[i].st = "awaiting"

Starts(i) == inv[i].st = "queued" /\ inv'[i].st # "queued"

Failed(i) == inv[i].outcome \notin {"pending", "ok"}

\* Every function that starts with `await this.initRoom(roomId)` stops there:
\* the initRoom invocation is chained after the invocation that awaits it.
NeverResumes ==
  \A i \in Ids : inv[i].method \in AwaitsInitRoom => inv[i].st \in {"queued", "awaiting"}

\* Consequences of NeverResumes: no operation is ever appended to the log, and a
\* cached room always holds the template state.
LogStaysEmpty == room_ops = {}

CacheIsTemplate ==
  \A r \in Rooms : rooms[r] # NoRoom => rooms[r] = loadTemplate(r)

\* C1: for a fixed key, a function is only started while no other function
\* submitted under that key is executing (started and not yet settled), so at
\* most one of them executes at any time.
C1_MutualExclusion ==
  [][\A i \in Ids : Starts(i) =>
       \A j \in Ids \ {i} : SameKey(i, j) => ~Executing(j) /\ ~Executing(j)']_vars

C1_Witness ==
  \E i, j \in Ids :
    /\ i # j /\ SameKey(i, j)
    /\ Executing(i) /\ inv[j].st = "queued" /\ inv[j].parent = 0

\* C2: for a fixed key, functions are started in the order of their withKey
\* calls: when one starts, every one requested earlier under the key has started.
C2_Fifo ==
  [][\A i \in Ids : Starts(i) =>
       \A j \in 1..(i - 1) : SameKey(i, j) => inv[j].st # "queued"]_vars

C2_Witness ==
  \E i, j \in Ids :
    /\ j < i /\ SameKey(i, j) /\ inv[i].parent = 0 /\ inv[j].parent = 0
    /\ inv[j].st = "done" /\ inv[i].st = "done"

\* C3: the start of a function never waits on another key: a queued invocation
\* whose earlier invocations of the same key have all completed can start,
\* whatever invocations of other keys are running or blocked.
C3_CrossKeyIndependence ==
  \A i \in Ids :
    ( /\ inv[i].st = "queued"
      /\ \A j \in 1..(i - 1) : SameKey(i, j) => inv[j].st = "done" )
    => ENABLED Run(i)

\* an invocation of one key is blocked for ever while a later one of another
\* key has started and completed
C3_Witness ==
  \E i, j \in Ids :
    /\ i < j /\ ~SameKey(i, j)
    /\ Executing(i) /\ inv[j].st = "done"

\* invocation i waits behind one that failed and has handed its failure out
QueuedBehindFailed(i) ==
  /\ inv[i].st = "queued"
  /\ (IF inv[i].prev = 0 THEN FALSE
      ELSE Failed(inv[i].prev) /\ inv[inv[i].prev].st = "done")

\* C4: the caller of withKey receives the outcome of its own function, a failure
\* included, and an invocation queued behind a failed one is admitted: its
\* function can start at once (and, the event loop being weakly fair, does).
C4_FailureIsolation ==
  \A i \in Ids :
    /\ inv[i].st = "done" => inv[i].delivered = inv[i].outcome
    /\ QueuedBehindFailed(i) => ENABLED Run(i)

\* a function failed, its caller got the failure, and the next one queued under
\* the key ran and delivered its own result
C4_Witness ==
  \E i \in Ids :
    /\ inv[i].prev # 0 /\ Failed(inv[i].prev)
    /\ inv[inv[i].prev].delivered = "db_error"
    /\ inv[i].st = "done" /\ inv[i].delivered = "ok"

\* the state initRoom would load for a room that is not cached
Recovered(roomId) ==
  initRoom(roomId, CHOOSE p \in LatestChoices(roomId) : TRUE).result.state

\* the room's current version: the cached one, or the one a first access loads
CurrentVersion(roomId) ==
  IF rooms[roomId] # NoRoom THEN rooms[roomId].version ELSE Recovered(roomId).version

IsApply(i) == inv[i].method = "applyOperation" /\ inv[i].parent = 0

\* a move of an existing card, computed against the room's current version, whose
\* function has started (it holds the room's place in the chain)
ValidMoveRunning(i) ==
  IF i \in Ids
  THEN /\ IsApply(i) /\ Executing(i)
       /\ inv[i].arg.type = "move"
       /\ FindCard(TemplateCards, inv[i].arg.cardId) # 0
       /\ inv[i].arg.clientV = CurrentVersion(inv[i].key)
  ELSE FALSE

ReturnedNextVersion(i) ==
  IF i \in Ids
  THEN LET a == inv[i].arg
           r == inv[i].result
           v == a.clientV + 1
       IN  /\ inv[i].st = "done" /\ inv[i].delivered = "ok"
           /\ r.version = v
           /\ r.delta = [type |-> "move", cardId |-> a.cardId, toZone |-> a.toZone,
                         version |-> v]
           /\ r.state.version = v
           /\ r.state.cards[FindCard(r.state.cards, a.cardId)].zone = a.toZone
  ELSE FALSE

\* C5: applyOperation with a move of an existing card and clientV equal to the
\* room's current version v eventually returns version v+1, the delta with
\* version v+1 and a state at version v+1 with the card in toZone.
C5_ApplyReturns ==
  \A i \in 1..(2 * MaxCalls) : ValidMoveRunning(i) ~> ReturnedNextVersion(i)

StaleMoveRunning(i) ==
  IF i \in Ids
  THEN /\ IsApply(i) /\ Executing(i)
       /\ inv[i].arg.type = "move"
       /\ inv[i].arg.clientV # Undefined
       /\ inv[i].arg.clientV # CurrentVersion(inv[i].key)
  ELSE FALSE

RejectedAsConflict(i) ==
  IF i \in Ids
  THEN /\ inv[i].st = "done" /\ inv[i].delivered = "VERSION_CONFLICT"
       /\ inv[i].result.version = rooms[inv[i].key].version
       /\ inv[i].result.state = rooms[inv[i].key]
  ELSE FALSE

\* C7: applyOperation with a numeric clientV other than the room's current
\* version always fails with VERSION_CONFLICT carrying the current version and
\* state, and the step that rejects it changes neither the cache nor the tables.
C7_StaleRejected ==
  /\ \A i \in 1..(2 * MaxCalls) : StaleMoveRunning(i) ~> RejectedAsConflict(i)
  /\ [][\A i \in Ids : (StaleMoveRunning(i) /\ inv'[i].st # inv[i].st) =>
          UNCHANGED <<rooms, room_ops, room_snapshots>>]_vars

\* two applyOperation calls for one room, both computed against its current
\* version v, are pending together
SameBaseSubmitted(i, j) ==
  IF i \in Ids /\ j \in Ids /\ i < j
  THEN /\ IsApply(i) /\ IsApply(j) /\ SameKey(i, j)
       /\ inv[i].st # "done" /\ inv[j].st # "done"
       /\ inv[i].arg.clientV = CurrentVersion(inv[i].key)
       /\ inv[j].arg.clientV = inv[i].arg.clientV
  ELSE FALSE

Succeeded(i) ==
  inv[i].st = "done" /\ inv[i].delivered = "ok"
    /\ inv[i].result.version = inv[i].arg.clientV + 1

Conflicted(i) == inv[i].st = "done" /\ inv[i].delivered = "VERSION_CONFLICT"

OneWinsOneConflicts(i, j) ==
  IF i \in Ids /\ j \in Ids
  THEN \/ Succeeded(i) /\ Conflicted(j)
       \/ Succeeded(j) /\ Conflicted(i)
  ELSE FALSE

\* C8: of two valid applyOperation calls carrying the same clientV = v, submitted
\* concurrently to a room at version v, exactly one succeeds with version v+1 and
\* the other is rejected with a version conflict; never both succeed.
C8_ExactlyOneWins ==
  /\ \A i \in 1..(2 * MaxCalls), j \in 1..(2 * MaxCalls) :
       SameBaseSubmitted(i, j) ~> OneWinsOneConflicts(i, j)
  /\ [](\A i, j \in Ids :
          (i # j /\ IsApply(i) /\ IsApply(j) /\ SameKey(i, j)
             /\ inv[i].arg.clientV = inv[j].arg.clientV)
          => ~(Succeeded(i) /\ Succeeded(j)))

\* Another consequence of NeverResumes: no presence entry is ever stored.
NoPresenceEntry == \A r \in Rooms : presence[r].entries = << >>

\* the rows of a table that belong to a room
OpsOf(table, roomId) == {row \in table : row.room_id = roomId}

SnapshotsOf(table, roomId) == {k \in 1..Len(table) : table[k].room_id = roomId}

\* the template state of a room, as the template file gives it
TemplateState(roomId) ==
  [id |-> roomId, version |-> TemplateVersion, cards |-> TemplateCards]

\* the step in which the function of invocation i, a call of method m, returns
Returns(i, m) ==
  /\ inv[i].method = m /\ inv[i].st \in {"queued", "awaiting"}
  /\ inv'[i].st = "settled" /\ inv'[i].outcome = "ok"

\* C13 as stated: when resetRoom returns, the returned and the cached state have
\* the template's baseline version and the room has no LogEntry and no Snapshot.
C13_ResetLeavesNothing ==
  [][\A i \in Ids : Returns(i, "resetRoom") =>
       /\ inv'[i].result.state.version = TemplateVersion
       /\ rooms'[inv[i].key].version = TemplateVersion
       /\ OpsOf(room_ops', inv[i].key) = {}
       /\ SnapshotsOf(room_snapshots', inv[i].key) = {}]_vars

\* C13 amended: when resetRoom returns, the returned and the cached state have
\* the template's baseline version, the room has no LogEntry, and it has exactly
\* one Snapshot, the fresh one at the baseline version.
C13_ResetLeavesOneSnapshot ==
  [][\A i \in Ids : Returns(i, "resetRoom") =>
       /\ inv'[i].result.state.version = TemplateVersion
       /\ rooms'[inv[i].key].version = TemplateVersion
       /\ OpsOf(room_ops', inv[i].key) = {}
       /\ Cardinality(SnapshotsOf(room_snapshots', inv[i].key)) = 1
       /\ \A k \in SnapshotsOf(room_snapshots', inv[i].key) :
            room_snapshots'[k].version = TemplateVersion]_vars

\* resetRoom returned for a room that already had a snapshot from an earlier reset
C13_Witness ==
  \E i, j \in Ids :
    /\ i < j /\ SameKey(i, j)
    /\ inv[i].method = "resetRoom" /\ inv[i].outcome = "ok"
    /\ inv[j].method = "resetRoom" /\ inv[j].outcome = "ok"

\* a getRoomState call chained directly after a resetRoom that returned
ReadsAfterReset(g) ==
  /\ inv[g].method = "getRoomState" /\ inv[g].prev # 0
  /\ (IF inv[g].prev = 0 THEN FALSE
      ELSE inv[inv[g].prev].method = "resetRoom" /\ inv[inv[g].prev].outcome = "ok")

C16_GetPresenceReadOnly ==
  [][reads' # reads =>
       /\ UNCHANGED <<rooms, presence, snapshotTimers, room_ops, room_snapshots, clock>>
       /\ LET got == reads'[Len(reads')]
              entries == presence[got.room].entries
          IN  /\ Len(got.list) = Len(entries)
              /\ \A k \in 1..Len(entries) :
                   got.list[k].clientId = entries[k].clientId]_vars

\* getPresence was called for a room that has no presence map
C16_Witness == \E k \in 1..Len(reads) : ~presence[reads[k].room].has

HandsOutState == {"initRoom", "getRoomState", "applyOperation", "resetRoom"}

\* C18: every room state handed to an external caller by initRoom, getRoomState,
\* applyOperation or resetRoom is a copy, never the cached object itself.
C18_DefensiveCopies ==
  \A i \in TopLevel :
    (inv[i].method \in HandsOutState /\ inv[i].st = "done" /\ inv[i].delivered = "ok")
      => ~inv[i].result.aliased

\* the call an invocation belongs to: itself, or the call that awaits it
Root(i) == IF inv[i].parent = 0 THEN i ELSE inv[i].parent

\* the step in which the function of invocation i reads and writes the store
Accesses(i) == inv[i].st \in {"queued", "awaiting"} /\ inv'[i].st = "settled"

\* C19: when a call on a room (or the room initialization it awaits) reads or
\* writes the store, every call submitted earlier on that room has made all its
\* reads and writes: its function has settled.
C19_PerRoomTotalOrder ==
  [][\A i \in Ids : Accesses(i) =>
       \A a \in TopLevel : (a < Root(i) /\ SameKey(a, i)) =>
          inv[a].st \in {"settled", "done"}]_vars

Mutating == {"applyOperation", "saveSnapshot", "resetRoom",
             "updatePresence", "clearPresence", "prunePresence"}

\* two mutating calls on one room were pending together and both have completed
C19_Witness ==
  \E a, b \in TopLevel :
    /\ a < b /\ SameKey(a, b)
    /\ inv[a].method \in Mutating /\ inv[b].method \in Mutating
    /\ inv[b].prev = a
    /\ inv[a].st = "done" /\ inv[b].st = "done"

InvalidRunning(i) ==
  IF i \in Ids
  THEN /\ IsApply(i) /\ Executing(i)
       /\ (inv[i].arg.type # "move" \/ inv[i].arg.clientV = Undefined)
  ELSE FALSE

RejectedAsInvalid(i) ==
  IF i \in Ids
  THEN inv[i].st = "done" /\ inv[i].delivered \in {"unsupported_op", "clientV_required"}
  ELSE FALSE

\* C20: applyOperation with a type other than 'move', or without a numeric
\* clientV, fails with an error, and the step that rejects it changes neither the
\* cache nor the tables.
C20_InvalidRejected ==
  /\ \A i \in 1..(2 * MaxCalls) : InvalidRunning(i) ~> RejectedAsInvalid(i)
  /\ [][\A i \in Ids : (InvalidRunning(i) /\ inv'[i].st # inv[i].st) =>
          UNCHANGED <<rooms, room_ops, room_snapshots>>]_vars

\* the cards of a room: the cached ones, or the template's before the first load
RoomCards(roomId) ==
  IF rooms[roomId] # NoRoom THEN rooms[roomId].cards ELSE TemplateCards

MissingCardRunning(i) ==
  IF i \in Ids
  THEN /\ IsApply(i) /\ Executing(i) /\ inv[i].arg.type = "move"
       /\ FindCard(RoomCards(inv[i].key), inv[i].arg.cardId) = 0
  ELSE FALSE

FailedAtCaller(i) ==
  IF i \in Ids
  THEN inv[i].st = "done" /\ inv[i].delivered \notin {"pending", "ok"}
  ELSE FALSE

\* C21: no LogEntry names a card its room does not have, and applyOperation for
\* a card the room does not have fails; none of its steps changes the log, the
\* cards or the version.
C21_MissingCardRejected ==
  /\ [](\A row \in room_ops :
          FindCard(RoomCards(row.room_id), ParseOp(row.op_json).cardId) # 0)
  /\ \A i \in 1..(2 * MaxCalls) : MissingCardRunning(i) ~> FailedAtCaller(i)
  /\ [][\A i \in Ids : (MissingCardRunning(i) /\ inv'[i].st # inv[i].st) =>
          UNCHANGED <<rooms, room_ops>>]_vars

\* everything the store holds for one room
RoomView(roomId) ==
  << rooms[roomId], presence[roomId], OpsOf(room_ops, roomId),
     SelectSeq(room_snapshots, LAMBDA row : row.room_id = roomId) >>

\* this step is a step of a call on the room: the call is made, or its function
\* or its finally block runs
ActsOn(roomId) ==
  \E i \in 1..Len(inv') :
    /\ inv'[i].key = roomId
    /\ (IF i \in Ids THEN inv'[i] # inv[i] ELSE TRUE)

\* C23: a step of a call on room A leaves the cached state, the LogEntries, the
\* Snapshots and the presence entries of every other room B unchanged.
C23_RoomIsolation ==
  [][\A A \in Rooms : ActsOn(A) =>
       \A B \in Rooms \ {A} : RoomView(B)' = RoomView(B)]_vars

\* resetRoom returned for one room while another room was cached and had a snapshot
C23_Witness ==
  \E i, j \in Ids :
    /\ ~SameKey(i, j) /\ i < j
    /\ inv[i].method = "resetRoom" /\ inv[i].outcome = "ok"
    /\ inv[j].method = "resetRoom" /\ inv[j].outcome = "ok"
    /\ rooms[inv[i].key] # NoRoom /\ SnapshotsOf(room_snapshots, inv[i].key) # {}

\* C24: when resetRoom returns, the room has no LogEntry and exactly one Snapshot;
\* that Snapshot has the template's baseline version and its state is the state
\* resetRoom has just cached.
C24_ResetLeavesFreshSnapshot ==
  [][\A i \in Ids : Returns(i, "resetRoom") =>
       /\ OpsOf(room_ops', inv[i].key) = {}
       /\ \E k \in SnapshotsOf(room_snapshots', inv[i].key) :
            /\ SnapshotsOf(room_snapshots', inv[i].key) = {k}
            /\ room_snapshots'[k].version = TemplateVersion
            /\ ParseState(room_snapshots'[k].state_json) = rooms'[inv[i].key]]_vars

\* resetRoom completed for room r1, the room whose database rows (LogEntries and
\* snapshots of a history) existed before the store was constructed
C24_Witness ==
  \E i \in Ids :
    /\ inv[i].method = "resetRoom" /\ inv[i].key = "r1"
    /\ inv[i].st = "done" /\ inv[i].delivered = "ok"
    /\ OpsOf(room_ops, "r1") = {}

\* invocation i runs the function of initRoom, for initRoom or for getRoomState
IsInit(i) == inv[i].method \in {"initRoom", "getRoomState"}

\* the step in which initRoom loads a room that is not cached (lines 50-71)
Loads(i) == IsInit(i) /\ Accesses(i) /\ rooms[inv[i].key] = NoRoom

\* C25: initRoom loads a room only while it is not cached and then caches what it
\* returns and arms the room's timer; on a cached room it reads and writes
\* nothing and returns the cached state, so every caller gets the same state; a
\* cached room never becomes uncached, and a timer is armed only by a load.
C25_SingleInitialization ==
  [][/\ \A i \in Ids : (IsInit(i) /\ Accesses(i)) =>
          IF rooms[inv[i].key] = NoRoom
          THEN inv'[i].outcome = "ok" =>
                 /\ rooms'[inv[i].key] = inv'[i].result.state
                 /\ rooms'[inv[i].key] # NoRoom
                 /\ snapshotTimers' = snapshotTimers \cup {inv[i].key}
          ELSE /\ UNCHANGED <<rooms, presence, snapshotTimers, room_ops, room_snapshots>>
               /\ inv'[i].outcome = "ok"
               /\ inv'[i].result.state = rooms[inv[i].key]
     /\ \A r \in Rooms : rooms[r] # NoRoom => rooms'[r] # NoRoom
     /\ snapshotTimers' # snapshotTimers => \E i \in Ids : Loads(i)]_vars

\* two first accesses to a room with history were pending together; both
\* completed and got the same state, which the first one loaded by replay
C25_Witness ==
  \E i, j \in Ids :
    /\ IsInit(i) /\ IsInit(j) /\ inv[j].prev = i
    /\ inv[i].st = "done" /\ inv[j].st = "done"
    /\ inv[i].delivered = "ok" /\ inv[j].delivered = "ok"
    /\ inv[i].result.state.version > TemplateVersion
    /\ inv[j].result.state = inv[i].result.state

\* the recovery baseline of a room: its snapshot of highest version, or the template
Baseline(roomId) ==
  LET snaps == SnapshotsOf(room_snapshots, roomId)
  IN  IF snaps = {} THEN TemplateState(roomId)
      ELSE ParseState(room_snapshots[
             CHOOSE k \in snaps :
               \A j \in snaps : room_snapshots[j].version <= room_snapshots[k].version
           ].state_json)

\* the LogEntries of a room later than its baseline
LaterOps(roomId) ==
  { ParseOp(row.op_json) :
      row \in {x \in OpsOf(room_ops, roomId) : x.version > Baseline(roomId).version} }

ExpectedVersion(roomId) ==
  IF LaterOps(roomId) = {} THEN Baseline(roomId).version
  ELSE CHOOSE v \in {op.version : op \in LaterOps(roomId)} :
         \A op \in LaterOps(roomId) : op.version <= v

\* the zone of the k-th card: the toZone of the last later entry that names it
ExpectedZone(roomId, k) ==
  LET card == Baseline(roomId).cards[k]
      naming == {op \in LaterOps(roomId) : op.cardId = card.id}
  IN  IF naming = {} THEN card.zone
      ELSE (CHOOSE op \in naming : \A o \in naming : o.version <= op.version).toZone

\* C26: the state initRoom loads for an uncached room is the baseline (highest
\* snapshot, or template) with the LogEntries later than the baseline applied in
\* ascending order: its version is that of the last such entry, or the
\* baseline's, and each card is in the zone the last such entry naming it gives.
C26_RecoveryBaseline ==
  [][\A i \in Ids : (Loads(i) /\ inv'[i].outcome = "ok") =>
       LET s == inv'[i].result.state
           r == inv[i].key
       IN  /\ s.id = r
           /\ s.version = ExpectedVersion(r)
           /\ Len(s.cards) = Len(Baseline(r).cards)
           /\ \A k \in 1..Len(s.cards) :
                /\ s.cards[k].id = Baseline(r).cards[k].id
                /\ s.cards[k].zone = ExpectedZone(r, k)]_vars

\* a room with several snapshots and a LogEntry later than the highest of them
\* was loaded
C26_Witness ==
  /\ Cardinality(SnapshotsOf(room_snapshots, "r1")) >= 2
  /\ LaterOps("r1") # {}
  /\ rooms["r1"] # NoRoom
  /\ rooms["r1"].version = ExpectedVersion("r1")
  /\ \E i \in Ids : IsInit(i) /\ inv[i].key = "r1" /\ inv[i].st = "done"

SaveRunning(i) ==
  IF i \in Ids
  THEN inv[i].method = "saveSnapshot" /\ inv[i].parent = 0 /\ Executing(i)
  ELSE FALSE

SnapshotSaved(i) ==
  IF i \in Ids THEN inv[i].st = "done" /\ inv[i].delivered = "ok" ELSE FALSE

\* C27: saveSnapshot completes, and when it returns it has added exactly one
\* Snapshot row, holding the cached version and state, and has changed neither
\* the cached state, the LogEntries nor the presence entries.
C27_SaveSnapshotAddsOne ==
  /\ \A i \in 1..(2 * MaxCalls) : SaveRunning(i) ~> SnapshotSaved(i)
  /\ [][\A i \in Ids : Returns(i, "saveSnapshot") =>
          /\ room_snapshots' =
               Append(room_snapshots,
                      [room_id |-> inv[i].key, version |-> rooms[inv[i].key].version,
                       state_json |-> StringifyState(rooms[inv[i].key])])
          /\ UNCHANGED <<rooms, room_ops, presence>>]_vars

\* C28: the lock map has an entry for a key exactly while some invocation of
\* that key has not completed its finally block, and the entry is the latest
\* invocation of the key.
C28_LockMapCleanup ==
  \A k \in Rooms :
    /\ locks[k] # 0 <=> \E i \in Ids : inv[i].key = k /\ inv[i].st # "done"
    /\ locks[k] # 0 => \A i \in Ids : inv[i].key = k => i <= locks[k]

\* two invocations of a key were pending together, the earlier one completed
\* without removing the later one's entry, and once both completed the key is
\* absent from the map
C28_Witness ==
  \E i, j \in Ids :
    /\ inv[j].prev = i /\ inv[i].st = "done" /\ inv[j].st = "done"
    /\ locks[inv[j].key] = 0

RejectedAsMissingCard(i) ==
  IF i \in Ids
  THEN inv[i].st = "done" /\ inv[i].delivered = "card_not_found"
  ELSE FALSE

\* C29: a move of a card the room does not have is rejected as an invalid
\* request (card not found), whether or not its clientV is the room's version.
C29_MissingCardBeforeConflict ==
  \A i \in 1..(2 * MaxCalls) : MissingCardRunning(i) ~> RejectedAsMissingCard(i)

UpdateRunning(i) ==
  IF i \in Ids
  THEN inv[i].method = "updatePresence" /\ inv[i].parent = 0 /\ Executing(i)
  ELSE FALSE

\* the call returned and the room holds exactly one entry for the client, with
\* the payload's holding and ts, and the returned list has every entry
Upserted(i) ==
  IF i \in Ids
  THEN /\ inv[i].st = "done" /\ inv[i].delivered = "ok"
       /\ LET entries == presence[inv[i].key].entries
              mine == {k \in 1..Len(entries) : entries[k].clientId = inv[i].arg.clientId}
          IN  /\ Cardinality(mine) = 1
              /\ \A k \in mine : /\ entries[k].holding = inv[i].arg.holding
                                 /\ entries[k].ts = inv[i].arg.ts
              /\ Len(inv[i].result.list) = Len(entries)
  ELSE FALSE

\* C31: updatePresence completes and leaves exactly one entry for the client,
\* carrying the payload's holding and ts, and returns the list of every entry of
\* the room; none of its steps changes an entry of another client.
C31_UpdateIsUpsert ==
  /\ \A i \in 1..(2 * MaxCalls) : UpdateRunning(i) ~> Upserted(i)
  /\ [][\A i \in Ids : (UpdateRunning(i) /\ inv'[i].st # inv[i].st) =>
          \A k \in 1..Len(presence[inv[i].key].entries) :
            presence[inv[i].key].entries[k].clientId # inv[i].arg.clientId =>
              \E j \in 1..Len(presence'[inv[i].key].entries) :
                presence'[inv[i].key].entries[j] = presence[inv[i].key].entries[k]]_vars

NestingRunning(i) ==
  IF i \in Ids
  THEN inv[i].method \in AwaitsInitRoom /\ inv[i].parent = 0 /\ Executing(i)
  ELSE FALSE

QueuedBehindNesting(i) ==
  IF i \in Ids
  THEN /\ inv[i].st = "queued" /\ inv[i].parent = 0
       /\ \E j \in 1..(i - 1) : SameKey(i, j) /\ inv[j].method \in AwaitsInitRoom
  ELSE FALSE

Completed(i) == IF i \in Ids THEN inv[i].st = "done" ELSE FALSE

Started(i) == IF i \in Ids THEN inv[i].st # "queued" ELSE FALSE

\* C35: every saveSnapshot, updatePresence and applyOperation call, the timer's
\* saveSnapshot included, eventually completes, and every call submitted to the
\* same room after it eventually starts.
C35_NoSelfDeadlock ==
  /\ \A i \in 1..(2 * MaxCalls) : NestingRunning(i) ~> Completed(i)
  /\ \A i \in 1..(2 * MaxCalls) : QueuedBehindNesting(i) ~> Started(i)

Pending(i) == IF i \in Ids THEN inv[i].st = "queued" ELSE FALSE

SettledWithOwnOutcome(i) ==
  IF i \in Ids
  THEN /\ inv[i].st = "done" /\ inv[i].outcome # "pending"
       /\ inv[i].delivered = inv[i].outcome
  ELSE FALSE

\* C36: when no function calls withKey itself and every function ends, every
\* withKey invocation eventually starts its function and settles with that
\* function's outcome.
C36_LockProgress ==
  \A i \in 1..(2 * MaxCalls) : Pending(i) ~> SettledWithOwnOutcome(i)

\* an invocation that had to wait behind another one of its key has settled
\* with its own outcome, after a predecessor that succeeded
C36_Witness ==
  \E i \in Ids :
    /\ inv[i].prev # 0
    /\ SettledWithOwnOutcome(i)
    /\ (IF inv[i].prev = 0 THEN FALSE ELSE inv[inv[i].prev].delivered = "ok")

\* C37: every cached room has its periodic snapshot timer armed.
C37_CachedRoomHasTimer ==
  \A r \in Rooms : rooms[r] # NoRoom => r \in snapshotTimers

\* the cards named by the LogEntries later than the baseline
NamedLater(roomId) == {op.cardId : op \in LaterOps(roomId)}

C39_RateLimit ==
  [][hook'.n # hook.n =>
       /\ hook'.reply = (IF windows'[hook'.ip].seen <= RATE_LIMIT_MAX
                         THEN "pass" ELSE "429")
       /\ \A ip \in IPs \ {hook'.ip} : windows'[ip] = windows[ip]]_vars

\* an ip's request was answered 429, as the one after the last that passed, in
\* a window that opened after the clock had advanced
C39_Witness ==
  /\ hook.reply = "429"
  /\ windows[hook.ip].seen = RATE_LIMIT_MAX + 1
  /\ windows[hook.ip].opened >= RATE_LIMIT_WINDOW

\* C33: when notifying the observers after a mutation fails (getWeekData or the
\* injected read rejects, or a send throws), the mutation still reports
\* success and the step leaves the tables as the mutation wrote them.
C33_BestEffortBroadcast ==
  [][\A i \in ReqIds :
       reqs[i].notify = "none" /\ reqs'[i].notify = "failed" =>
         /\ reqs'[i].kind \in Mutations
         /\ reqs'[i].reply = "success"
         /\ members' = members
         /\ attendance' = attendance]_vars

\* the weekly route wrote its row, its notification failed, and it replied
\* success with the row still in the table
C33_Witness ==
  \E i \in ReqIds :
    /\ reqs[i].kind = "weekly"
    /\ reqs[i].notify = "failed"
    /\ reqs[i].reply = "success"
    /\ attendance[reqs[i].member] = "attend"

\* C34: no attendance row names a member absent from the members table, and
\* once a delete has reported success the member has no attendance row.
C34_NoOrphanAttendance ==
  /\ \A m \in MemberIds : attendance[m] # "none" => m \in members
  /\ \A i \in ReqIds :
       reqs[i].kind = "delete" /\ reqs[i].reply = "success" =>
         attendance[reqs[i].member] = "none"

\* C38: week data read before a write whose route has since called
\* invalidateWeekDataCache is never put in the cache, returned or broadcast.
C38_CacheFresh ==
  [][/\ weekDataCache' # NoData => weekDataCache'.asOf >= invalidated'
     /\ \A i \in ReqIds :
          reqs[i].pc = "Rx" /\ ~reqs[i].err /\ reqs'[i].pc = "done" =>
            reqs[i].read.asOf >= invalidated]_vars

====
